---- MODULE Spec2Model ----
(***************************************************************************)
(* Model of find_duplicate_files.py: the scan of a source tree into an     *)
(* index keyed by content digest (get_files), the selection of duplicates  *)
(* (get_duplicates) and their relocation under the destination root        *)
(* (move_duplicates), driven by main.                                      *)
(*                                                                         *)
(* The file system is a map from absolute paths (sequences of names) to    *)
(* nodes: regular files with a content, directories and symbolic links.    *)
(* Library calls (Path.resolve, os.walk, Path.mkdir, shutil.move) are      *)
(* modelled by their POSIX behaviour on that map.  I/O errors that do not  *)
(* follow from the file system state (a read error, a file that vanished,  *)
(* a failing mkdir or rename) are injected nondeterministically, at most   *)
(* MaxFaults of them in one behaviour.  The audit log (--csv-log) is       *)
(* configured in every modelled run.  The user may interrupt a run.        *)
(*                                                                         *)
(* A second specification, SpecOrg, models organize_by_date.py on the same *)
(* file system map: the collection of the files of a source tree and their *)
(* move into the YYYY-MM folder of their modification date.                *)
(***************************************************************************)
EXTENDS Integers, Sequences, FiniteSets, TLC

\* ------------------------------------------------------------------ bounds
NumContents == 2
MaxFaults == 1
MaxRuns == 2
MaxLinks == 2

Contents == 1 .. NumContents
\* content of the files that exist outside the scanned set before the run
OldContent == NumContents + 1

\* ------------------------------------------------------------- path universe
SourceArg == <<"s">>
Outside == <<"o">>
DestArgs == {<<"d">>, <<"s", "d">>, <<"s">>}
Rels == {<<>>, <<"a">>, <<"b">>, <<"b", "b">>, <<"l">>, <<"sub">>, <<"sub", "a">>,
         <<"sub", "b">>}
Paths == {<<>>} \cup {r \o q : r \in DestArgs \cup {Outside}, q \in Rels}

\* order in which a directory listing returns its entries
NameOrder == <<"a", "b", "d", "l", "o", "s", "sub">>

NoNode == [kind |-> "none", content |-> 0, target |-> <<>>]
DirNode == [kind |-> "dir", content |-> 0, target |-> <<>>]
FileNode(c) == [kind |-> "file", content |-> c, target |-> <<>>]
LinkNode(t) == [kind |-> "link", content |-> 0, target |-> t]

VARIABLES
    fs,           \* the file system: path -> node
    fs0,          \* the file system at the start of the current run
    sourceArg,    \* --source-folder
    destArg,      \* --dest-folder
    unreadable,   \* the directories for which os.access(path, R_OK) is false
    destWritable, \* os.access(dest, W_OK)
    pc,           \* position of main
    exitCode,     \* -1 while running, else the process exit code
    run,          \* number of the current run of the program
    exitBy,       \* what ended the run
    pending,      \* file entries os.walk has still to yield
    seen,         \* file entries the loop of get_files has taken
    files,        \* get_files: the index, an insertion-ordered dict
    duplicates,   \* get_duplicates: the selected paths
    idx,          \* move_duplicates: position of the for loop
    console,      \* warnings and errors printed
    csv,          \* rows appended to the audit log
    hashed,       \* the paths hash_file has opened, with their canonical form
    attempts,     \* move_duplicates: one record per loop iteration
    written,      \* canonical paths created or replaced by mkdir / move
    faults,       \* number of injected I/O errors so far
    prev,         \* summary of the previous run
    dry_run,      \* organize_by_date.py: --dry-run
    mtime         \* organize_by_date.py: st_mtime of each file, a day number

vars == <<fs, fs0, sourceArg, destArg, unreadable, destWritable, pc, exitCode,
          exitBy, run, pending, seen, files, duplicates, idx, console, csv,
          hashed, attempts, written, faults, prev, dry_run, mtime>>

\* ------------------------------------------------------------ path helpers
IsPrefix(a, b) == Len(a) <= Len(b) /\ SubSeq(b, 1, Len(a)) = a

Parent(p) == SubSeq(p, 1, Len(p) - 1)

Name(p) == p[Len(p)]

NodeIn(f, p) == IF p \in DOMAIN f THEN f[p] ELSE NoNode

NodeAt(p) == NodeIn(fs, p)

\* Path.resolve() (non strict): every symbolic link met on the way is
\* replaced by its target; components that do not exist are kept.
RECURSIVE ResolveFrom(_, _, _)
ResolveFrom(base, rest, fuel) ==
    IF rest = <<>> THEN base
    ELSE LET next == Append(base, Head(rest))
         IN  IF NodeAt(next).kind = "link" /\ fuel > 0
             THEN ResolveFrom(<<>>, NodeAt(next).target \o Tail(rest), fuel - 1)
             ELSE ResolveFrom(next, Tail(rest), fuel)

Resolve(p) == ResolveFrom(<<>>, p, MaxLinks)

\* the place a path names when its last component is not followed
\* (rename, unlink, lstat)
Phys(p) == IF p = <<>> THEN p ELSE Append(Resolve(Parent(p)), Name(p))

\* os.path.islink
islink(p) == NodeAt(Phys(p)).kind = "link"

\* Path.is_dir / os.path.isdir: follows links
is_dir(p) == NodeAt(Resolve(p)).kind = "dir"

\* Path.exists: follows links
exists(p) == NodeAt(Resolve(p)).kind # "none"

\* find_duplicate_files.py: is_safe_path -- the unresolved comparison
is_safe_path_Unresolved(file_path, base_path) == IsPrefix(base_path, file_path)

\* find_duplicate_files.py: is_safe_path
is_safe_path(file_path, base_path) ==
    IsPrefix(Resolve(base_path), Resolve(file_path))

\* Path.relative_to: the caller has checked containment
relative_to(p, base) == SubSeq(p, Len(base) + 1, Len(p))

\* ---------------------------------------------------------------- os.walk
\* the entries of dir, from position i of the listing on: its sub-directories
\* (entry.is_dir(), which follows links) when dirs is set, else its file
\* entries
RECURSIVE Entries(_, _, _)
Entries(dir, i, dirs) ==
    IF i > Len(NameOrder) THEN <<>>
    ELSE LET p == Append(dir, NameOrder[i])
         IN  (IF NodeAt(p).kind # "none" /\ is_dir(p) = dirs THEN <<p>> ELSE <<>>)
             \o Entries(dir, i + 1, dirs)

\* os.walk(top), top-down, followlinks=False: the file entries of a
\* directory (everything that is not a directory, links included), then the
\* walk of each sub-directory that is not a link.
RECURSIVE walk(_)
walk(dir) ==
    LET subdirs == Entries(dir, 1, TRUE)
        RECURSIVE walkAll(_)
        walkAll(i) ==
            IF i > Len(subdirs) THEN <<>>
            ELSE (IF islink(subdirs[i]) THEN <<>> ELSE walk(subdirs[i]))
                 \o walkAll(i + 1)
    IN  Entries(dir, 1, FALSE) \o walkAll(1)

\* ------------------------------------------------------------ fingerprints
Digest(c) == <<"sha256", c>>

\* find_duplicate_files.py: hash_file keyed on the file name
hash_file_ByName(path) == <<"sha256", Name(path)>>

\* find_duplicate_files.py: hash_file -- open() follows links
hash_file(path) == Digest(NodeAt(Resolve(path)).content)

\* validate_path without the test of the read permission
validate_path_NoAccessCheck(path) ==
    IF path = <<>> THEN "ValueError"
    ELSE IF ~ exists(path) THEN "ValueError"
    ELSE IF ~ is_dir(path) THEN "ValueError"
    ELSE "ok"

\* validate_path: "ok" or "ValueError".  The empty sequence stands for the
\* empty argument string.
validate_path(path) ==
    IF path = <<>> THEN "ValueError"
    ELSE IF ~ exists(path) THEN "ValueError"
    ELSE IF ~ is_dir(path) THEN "ValueError"
    ELSE IF Resolve(path) \in unreadable THEN "ValueError"
    ELSE "ok"

source_path == Resolve(SourceArg)

dest_path == Resolve(destArg)

\* --------------------------------------------------------------- the index
KeyIndex(index, key) ==
    LET hit == {i \in 1 .. Len(index) : index[i].key = key}
    IN  IF hit = {} THEN 0 ELSE CHOOSE i \in hit : TRUE

\* files[key].append(path) / files[key] = [path]  (lines 142-145)
AddToIndex(index, key, path) ==
    LET i == KeyIndex(index, key)
    IN  IF i # 0
        THEN [index EXCEPT ![i].paths = Append(@, path)]
        ELSE Append(index, [key |-> key, paths |-> <<path>>])

RECURSIVE get_duplicates_KeepAll(_)
get_duplicates_KeepAll(index) ==
    IF index = <<>> THEN <<>>
    ELSE (IF Len(Head(index).paths) > 1 THEN Head(index).paths ELSE <<>>)
         \o get_duplicates_KeepAll(Tail(index))

\* find_duplicate_files.py: get_duplicates
RECURSIVE get_duplicates(_)
get_duplicates(index) ==
    IF index = <<>> THEN <<>>
    ELSE (IF Len(Head(index).paths) > 1 THEN Tail(Head(index).paths) ELSE <<>>)
         \o get_duplicates(Tail(index))

\* find_duplicate_files.py: get_file_info without the test for a link
get_file_info_NoLinkCheck(file_path, fault) ==
    IF NodeAt(Resolve(file_path)).kind # "file" \/ fault THEN "OSError"
    ELSE hash_file(file_path)

\* find_duplicate_files.py: get_file_info -- the digest, or "OSError" for a
\* symbolic link, for a path that names no readable file (os.stat, open)
\* and for an injected I/O error
get_file_info(file_path, fault) ==
    IF islink(file_path) THEN "OSError"
    ELSE IF NodeAt(Resolve(file_path)).kind # "file" \/ fault THEN "OSError"
    ELSE hash_file(file_path)

\* get_files lines 130-137 without the test for the destination folder
ScanDecision_NoDestSkip(file_path) ==
    IF ~ is_safe_path(file_path, source_path) THEN "outside"
    ELSE "get_file_info"

\* get_files lines 130-137: the two containment tests applied to a file
\* entry before get_file_info is called
ScanDecision(file_path) ==
    IF ~ is_safe_path(file_path, source_path) THEN "outside"
    ELSE IF is_safe_path(file_path, dest_path) THEN "in_dest"
    ELSE "get_file_info"

\* the handler of a failed get_file_info that lets the error escape
AfterScanFailure_Raise == "raise"

\* get_files lines 159-174: the failure is logged and the walk goes on
AfterScanFailure == "continue"

\* ------------------------------------------------------------------- Init
SrcFiles == {SourceArg \o q : q \in {<<"a">>, <<"b">>, <<"sub", "a">>, <<"sub", "b">>}}
LinkPath == SourceArg \o <<"l">>
LinkKinds == {"none", "in_source", "in_dest", "outside", "missing"}
PreKinds == {"empty", "file_b", "dir_b", "file_sub_a", "sub_is_file", "sub_is_link"}

LinkTarget(dest, lk) ==
    CASE lk = "in_source" -> SourceArg \o <<"a">>
      [] lk = "in_dest" -> dest \o <<"b">>
      [] lk = "outside" -> Outside \o <<"a">>
      [] OTHER -> SourceArg \o <<"zz">>

\* what the destination holds before the first run.  A source tree with a
\* symbolic link is combined with the destinations "empty" and "file_b" only.
PreNode(dest, pre, p) ==
    IF pre = "file_b" /\ p = dest \o <<"b">> THEN FileNode(OldContent)
    ELSE IF pre = "dir_b" /\ p = dest \o <<"b">> THEN DirNode
    ELSE IF pre = "file_sub_a" /\ p = dest \o <<"sub">> THEN DirNode
    ELSE IF pre = "file_sub_a" /\ p = dest \o <<"sub", "a">> THEN FileNode(OldContent)
    ELSE IF pre = "sub_is_file" /\ p = dest \o <<"sub">> THEN FileNode(OldContent)
    ELSE IF pre = "sub_is_link" /\ p = dest \o <<"sub">> THEN LinkNode(Outside)
    ELSE NoNode

MkFs(dest, src, lk, pre) ==
    [p \in Paths |->
        IF p \in {<<>>, SourceArg, Outside, dest, SourceArg \o <<"sub">>} THEN DirNode
        ELSE IF p \in SrcFiles
             THEN (IF src[p] = 0 THEN NoNode ELSE FileNode(src[p]))
        ELSE IF p = LinkPath
             THEN (IF lk = "none" THEN NoNode ELSE LinkNode(LinkTarget(dest, lk)))
        ELSE IF p = Outside \o <<"a">> THEN FileNode(OldContent)
        ELSE IF dest # SourceArg /\ IsPrefix(dest, p) THEN PreNode(dest, pre, p)
        ELSE NoNode]

\* contents are interchangeable: in listing order, a file holds a content
\* already seen or the next unused one
WalkOrder == <<SourceArg \o <<"a">>, SourceArg \o <<"b">>,
               SourceArg \o <<"sub", "a">>, SourceArg \o <<"sub", "b">>>>

FirstUse(src) ==
    \A i \in 1 .. Len(WalkOrder) :
        src[WalkOrder[i]] > 1 =>
            \E j \in 1 .. i - 1 : src[WalkOrder[j]] = src[WalkOrder[i]] - 1

\* root arguments that validate_path refuses: the empty string, a path that
\* does not exist, a path that is a regular file
InvalidArgs == {<<>>, Outside \o <<"zz">>, Outside \o <<"a">>}

PlainDest == <<"d">>

Init ==
    /\ destWritable \in BOOLEAN
    /\ \/ /\ sourceArg = SourceArg
          /\ destArg \in DestArgs
          /\ unreadable = {}
          /\ \E src \in [SrcFiles -> {0} \cup Contents], lk \in LinkKinds, pre \in PreKinds :
                /\ FirstUse(src)
                /\ destArg = SourceArg => pre = "empty"
                /\ lk # "none" => pre \in {"empty", "file_b"}
                /\ fs = MkFs(destArg, src, lk, pre)
       \/ /\ sourceArg \in {SourceArg} \cup InvalidArgs
          /\ destArg \in {PlainDest} \cup InvalidArgs
          /\ unreadable \in SUBSET {SourceArg, PlainDest}
          /\ \/ sourceArg # SourceArg
             \/ destArg # PlainDest
             \/ unreadable # {}
          /\ fs = MkFs(PlainDest, [p \in SrcFiles |-> 1], "none", "empty")
    /\ fs0 = fs
    /\ pc = "main"
    /\ exitCode = -1
    /\ run = 1
    /\ exitBy = "none"
    /\ pending = <<>>
    /\ seen = <<>>
    /\ files = <<>>
    /\ duplicates = <<>>
    /\ idx = 0
    /\ console = <<>>
    /\ csv = <<>>
    /\ hashed = {}
    /\ attempts = <<>>
    /\ written = {}
    /\ faults = 0
    /\ prev = [clean |-> FALSE, moved |-> 0]
    /\ dry_run = FALSE
    /\ mtime = <<>>

\* ---------------------------------------------------------------- actions
Row(op, orig, dst, h, status) ==
    [operation |-> op, original_path |-> orig, destination_path |-> dst,
     file_hash |-> h, status |-> status]

Exit(code, why) == pc' = "exit" /\ exitCode' = code /\ exitBy' = why

\* main lines 274-280 and get_files lines 121-125: the audit log is
\* initialised, both roots are validated, the walk starts
Start ==
    /\ pc = "main"
    /\ csv' = <<>>
    /\ IF validate_path(sourceArg) = "ok" /\ validate_path(destArg) = "ok"
       THEN /\ pc' = "scan"
            /\ pending' = walk(source_path)
            /\ UNCHANGED <<exitCode, exitBy>>
       ELSE /\ Exit(1, "ValueError")
            /\ UNCHANGED pending
    /\ UNCHANGED <<fs, fs0, sourceArg, destArg, unreadable, destWritable, run, seen, files, duplicates,
                   idx, console, hashed, attempts, written, faults, prev, dry_run, mtime>>

\* get_files lines 127-174: one file entry of the walk.  fault: get_file_info
\* raises OSError although the entry is a regular file (it vanished, or it
\* cannot be read)
ScanFile ==
    /\ pc = "scan"
    /\ pending # <<>>
    /\ LET file_path == Head(pending)
           decision == ScanDecision(file_path)
       IN  \E fault \in BOOLEAN :
             LET info == get_file_info(file_path, fault)
                 raised == decision = "get_file_info" /\ info = "OSError"
             IN  /\ fault => /\ decision = "get_file_info"
                             /\ get_file_info(file_path, FALSE) # "OSError"
                             /\ faults < MaxFaults
                 /\ faults' = IF fault THEN faults + 1 ELSE faults
                 /\ CASE decision = "outside" ->
                           /\ console' = Append(console, [kind |-> "outside_source", path |-> file_path])
                           /\ UNCHANGED <<files, csv, hashed>>
                      [] decision = "in_dest" ->
                           UNCHANGED <<files, csv, hashed, console>>
                      [] raised ->
                           /\ console' = Append(console, [kind |-> "could_not_process", path |-> file_path])
                           /\ csv' = Append(csv, Row("processed", file_path, <<>>, <<>>, "error"))
                           /\ UNCHANGED <<files, hashed>>
                      [] OTHER ->
                           /\ hashed' = hashed \cup {[path |-> file_path, canon |-> Resolve(file_path)]}
                           /\ files' = AddToIndex(files, info, file_path)
                           /\ csv' = Append(csv, Row("processed", file_path, <<>>, info, "success"))
                           /\ UNCHANGED console
                 /\ IF raised /\ AfterScanFailure = "raise"
                    THEN Exit(1, "OSError")
                    ELSE UNCHANGED <<pc, exitCode, exitBy>>
    /\ pending' = Tail(pending)
    /\ seen' = Append(seen, Head(pending))
    /\ UNCHANGED <<fs, fs0, sourceArg, destArg, unreadable, destWritable, run, duplicates, idx, attempts,
                   written, prev, dry_run, mtime>>

\* get_files line 179 and main lines 281-285
GetDuplicates ==
    /\ pc = "scan"
    /\ pending = <<>>
    /\ duplicates' = get_duplicates(files)
    /\ IF duplicates' = <<>>
       THEN Exit(0, "no_duplicates")
       ELSE pc' = "move_duplicates" /\ UNCHANGED <<exitCode, exitBy>>
    /\ UNCHANGED <<fs, fs0, sourceArg, destArg, unreadable, destWritable, run, pending, seen, files, idx,
                   console, csv, hashed, attempts, written, faults, prev, dry_run, mtime>>

\* ------------------------------------------------------- move_duplicates
\* Path.mkdir(parents=True, exist_ok=True): succeeds when the path is a
\* directory or can be created under an existing directory; fails when the
\* path or one of its ancestors exists and is not a directory
RECURSIVE MkdirOk(_)
MkdirOk(p) ==
    IF exists(p) THEN is_dir(p)
    ELSE IF islink(p) THEN FALSE
    ELSE IF p = <<>> THEN FALSE
    ELSE MkdirOk(Parent(p))

\* the directories that mkdir creates
RECURSIVE MissingDirs(_)
MissingDirs(p) ==
    IF exists(p) \/ p = <<>> THEN {} ELSE {Resolve(p)} \cup MissingDirs(Parent(p))

\* shutil.move(src, dst): a destination that is a directory receives the file
\* under its own name, and fails when that name is taken; any other
\* destination is replaced by os.rename (or by the copy that follows a
\* failed rename).  Result: ok and the place written.
shutil_move(src, dst) ==
    LET real_dst == IF is_dir(dst) THEN Append(dst, Name(src)) ELSE dst
    IN  IF is_dir(dst) /\ (exists(real_dst) \/ islink(real_dst))
        THEN [ok |-> FALSE, at |-> Phys(real_dst)]
        ELSE [ok |-> TRUE, at |-> Phys(real_dst)]

\* the handler of a failed move that ends the batch
AfterFailure_Abort == "abort"

\* lines 249-264: the failure is logged and the loop goes on
AfterFailure == "continue"

MoveFaults == {"none", "mkdir", "stat", "hash", "move"}

\* the handler of a failed re-hash that lets the error reach the handler of
\* the loop body
RehashFailure_Raise == "raise"

\* lines 226-230: a failed re-hash is passed over, file_hash stays empty
RehashFailure == "pass"

\* lines 205-264: the body of the loop for one duplicate; fault names the
\* call that raises OSError although the file system state allows it
MoveBody(dup, fault) ==
    LET file_path == Resolve(dup)
        relative_path == relative_to(file_path, source_path)
        final_dest_path == dest_path \o relative_path
        parent == Parent(final_dest_path)
        mkdir_ok == MkdirOk(parent) /\ fault # "mkdir"
        made == IF mkdir_ok THEN MissingDirs(parent) ELSE {}
        stat_ok == exists(file_path) /\ fault # "stat"
        hash_ok == fault # "hash"
        file_hash == IF hash_ok THEN hash_file(file_path) ELSE <<>>
        mv == shutil_move(file_path, final_dest_path)
        move_ok == /\ mv.ok
                   /\ fault # "move"
                   /\ ~ (fault = "hash" /\ RehashFailure = "raise")
        existed == NodeAt(mv.at).kind # "none"
        base == [path |-> dup, src |-> file_path, dst |-> <<>>, made |-> {},
                 read |-> {}, file_hash |-> <<>>, existed |-> FALSE,
                 used |-> FALSE, csv |-> <<>>, outcome |-> "skipped",
                 console |-> "outside_source"]
    IN  IF ~ is_safe_path(file_path, source_path) THEN base
        ELSE IF ~ is_safe_path(final_dest_path, dest_path)
        THEN [base EXCEPT !.dst = final_dest_path, !.console = "unsafe_dest"]
        ELSE IF ~ mkdir_ok
        THEN [base EXCEPT !.dst = final_dest_path, !.outcome = "failed",
                          !.console = "error_moving",
                          !.used = (fault = "mkdir" /\ MkdirOk(parent)),
                          !.csv = <<Row("moved", file_path, final_dest_path, <<>>, "error")>>]
        ELSE IF ~ stat_ok
        THEN [base EXCEPT !.dst = final_dest_path, !.outcome = "failed",
                          !.console = "error_moving",
                          !.used = (fault = "stat" /\ exists(file_path)),
                          !.made = made,
                          !.csv = <<Row("moved", file_path, final_dest_path, <<>>, "error")>>]
        ELSE IF ~ move_ok
        THEN [base EXCEPT !.dst = final_dest_path, !.outcome = "failed",
                          !.console = "error_moving",
                          !.used = (fault = "hash" \/ (fault = "move" /\ mv.ok)),
                          !.made = made, !.existed = existed,
                          !.read = IF hash_ok THEN {file_path} ELSE {},
                          !.csv = <<Row("moved", file_path, final_dest_path, <<>>, "error")>>]
        ELSE [base EXCEPT !.dst = mv.at, !.outcome = "moved",
                          !.console = "moved", !.used = (fault = "hash"),
                          !.made = made, !.existed = existed,
                          !.file_hash = file_hash,
                          !.read = IF hash_ok THEN {file_path} ELSE {},
                          !.csv = <<Row("moved", file_path, final_dest_path, file_hash, "success")>>]

\* the loop body with a move that leaves the file at its source
MoveEffect_KeepsSource(r) ==
    [p \in DOMAIN fs |->
        IF r.outcome = "moved" /\ p = r.dst THEN fs[r.src]
        ELSE IF p \in r.made THEN DirNode
        ELSE fs[p]]

\* the file system after the loop body: the directories mkdir has created,
\* and the file renamed from its source to its destination
MoveEffect(r) ==
    [p \in DOMAIN fs |->
        IF r.outcome = "moved" /\ p = r.dst THEN fs[r.src]
        ELSE IF r.outcome = "moved" /\ p = r.src THEN NoNode
        ELSE IF p \in r.made THEN DirNode
        ELSE fs[p]]

\* move_duplicates lines 198-200 without the test
WriteCheck_Skipped == "ok"

\* move_duplicates lines 198-200: os.access(dest_path, os.W_OK)
WriteCheck == IF destWritable THEN "ok" ELSE "PermissionError"

\* move_duplicates lines 195-202
MoveStart ==
    /\ pc = "move_duplicates"
    /\ IF WriteCheck # "ok"
       THEN Exit(1, "PermissionError") /\ UNCHANGED idx
       ELSE pc' = "move" /\ idx' = 1 /\ UNCHANGED <<exitCode, exitBy>>
    /\ UNCHANGED <<fs, fs0, sourceArg, destArg, unreadable, destWritable, run, pending, seen, files, duplicates,
                   console, csv, hashed, attempts, written, faults, prev, dry_run, mtime>>

\* move_duplicates lines 204-264: one iteration of the loop
MoveOne ==
    /\ pc = "move"
    /\ idx <= Len(duplicates)
    /\ \E fault \in MoveFaults :
          LET r == MoveBody(duplicates[idx], fault)
          IN  /\ fault # "none" => r.used /\ faults < MaxFaults
              /\ faults' = IF fault = "none" THEN faults ELSE faults + 1
              /\ fs' = MoveEffect(r)
              /\ console' = Append(console, [kind |-> r.console, path |-> r.src])
              /\ csv' = csv \o r.csv
              /\ hashed' = hashed \cup {[path |-> q, canon |-> Resolve(q)] : q \in r.read}
              /\ written' = written \cup r.made
                               \cup (IF r.outcome = "moved" THEN {r.dst} ELSE {})
              /\ attempts' = Append(attempts,
                      [path |-> r.path, src |-> r.src, dst |-> r.dst,
                       outcome |-> r.outcome, existed |-> r.existed,
                       file_hash |-> r.file_hash, fault |-> fault])
              /\ IF r.outcome = "failed" /\ AfterFailure = "abort"
                 THEN Exit(1, "OSError") /\ UNCHANGED idx
                 ELSE idx' = idx + 1 /\ UNCHANGED <<pc, exitCode, exitBy>>
    /\ UNCHANGED <<fs0, sourceArg, destArg, unreadable, destWritable, run, pending, seen, files, duplicates,
                   prev, dry_run, mtime>>

\* the loop is over: move_duplicates returns, main returns
Finish ==
    /\ pc = "move"
    /\ idx > Len(duplicates)
    /\ Exit(0, "finished")
    /\ UNCHANGED <<fs, fs0, sourceArg, destArg, unreadable, destWritable, run, pending, seen, files, duplicates,
                   idx, console, csv, hashed, attempts, written, faults, prev, dry_run, mtime>>

\* main lines 292-294: the user interrupts the run (KeyboardInterrupt) before
\* it starts, between two steps of the scan or of the loop, or inside an
\* iteration of the loop after mkdir has created directories and before
\* shutil.move renames the file.  An interrupt is counted among the faults.
Interrupt ==
    /\ pc \in {"main", "scan", "move_duplicates", "move"}
    /\ faults < MaxFaults
    /\ faults' = faults + 1
    /\ \E inBody \in BOOLEAN :
          LET r == IF pc = "move" /\ idx <= Len(duplicates)
                   THEN MoveBody(duplicates[idx], "move")
                   ELSE [made |-> {}, outcome |-> "none"]
          IN  /\ inBody => r.made # {}
              /\ fs' = IF inBody THEN MoveEffect(r) ELSE fs
              /\ written' = IF inBody THEN written \cup r.made ELSE written
    /\ Exit(1, "KeyboardInterrupt")
    /\ UNCHANGED <<fs0, sourceArg, destArg, unreadable, destWritable, run, pending,
                   seen, files, duplicates, idx, console, csv, hashed, attempts,
                   prev, dry_run, mtime>>

\* the regular files that the scan of this run could not fingerprint
ScanFailures ==
    {i \in 1 .. Len(console) :
        /\ console[i].kind = "could_not_process"
        /\ NodeIn(fs0, console[i].path).kind = "file"}

Moved == {i \in 1 .. Len(attempts) : attempts[i].outcome = "moved"}

\* the program is started again with the same arguments on the file system
\* the run has left
Rerun ==
    /\ pc = "exit"
    /\ run < MaxRuns
    /\ run' = run + 1
    /\ prev' = [clean |-> /\ exitCode = 0
                          /\ ScanFailures = {}
                          /\ Cardinality(Moved) = Len(duplicates),
                moved |-> Cardinality(Moved)]
    /\ fs0' = fs
    /\ pc' = "main"
    /\ exitCode' = -1
    /\ exitBy' = "none"
    /\ pending' = <<>>
    /\ seen' = <<>>
    /\ files' = <<>>
    /\ duplicates' = <<>>
    /\ idx' = 0
    /\ console' = <<>>
    /\ csv' = <<>>
    /\ hashed' = {}
    /\ attempts' = <<>>
    /\ written' = {}
    /\ UNCHANGED <<fs, sourceArg, destArg, unreadable, destWritable, faults,
                   dry_run, mtime>>

Next ==
    \/ Start
    \/ ScanFile
    \/ GetDuplicates
    \/ MoveStart
    \/ MoveOne
    \/ Finish
    \/ Interrupt
    \/ Rerun

Spec == Init /\ [][Next]_vars

\* ===================================================== organize_by_date.py
\* organize_files and move_file_to_date_folder, with collect_files_from_paths
\* and get_creation_date of get_file_creation_date.py.  The same file system
\* map is used; here a path component is a sequence of strings: the parts of
\* the name that "_" separates, the suffix last.  a.txt is <<"a", "txt">>,
\* a_1.txt is <<"a", "1", "txt">>, the folder 2024-01 is <<"2024", "01">>.
MaxCounter == 3

\* Path.stem, Path.suffix
stem(name) == SubSeq(name, 1, Len(name) - 1)

suffix(name) == name[Len(name)]

\* f"{stem}_{counter}{suffix}"  (line 76)
Numbered(name, counter) ==
    Append(Append(stem(name), ToString(counter)), suffix(name))

OrgSource == << <<"src">> >>
OrgDests == { << <<"out">> >>, << <<"src">>, <<"out">> >> }
Gone == << <<"gone">> >>
FileA == <<"a", "txt">>
FileA1 == <<"a", "1", "txt">>

\* the files of the source tree; the content of a file is its position here
OrgSrcFiles == <<OrgSource \o <<FileA>>, OrgSource \o <<FileA1>>,
                 OrgSource \o << <<"sub">>, FileA >> >>

OrgSrcIds == 1 .. Len(OrgSrcFiles)

\* the contents of the two files the destination may hold before the run
PreA == Len(OrgSrcFiles) + 1
PreA1 == Len(OrgSrcFiles) + 2

\* modification times, as day numbers counted from 1 January 2024
Days == {10, 20, 40}

\* datetime.fromtimestamp(mtime).strftime("%Y-%m")  (lines 40, 62)
year_month(day) == <<"2024", IF day <= 31 THEN "01" ELSE "02">>

MonthDirs == {year_month(d) : d \in Days}

OrgNames == {FileA, FileA1} \cup
            {Numbered(n, k) : n \in {FileA, FileA1}, k \in 1 .. MaxCounter}

OrgPaths ==
    {<<>>, OrgSource, OrgSource \o << <<"sub">> >>}
    \cup {OrgSrcFiles[i] : i \in OrgSrcIds}
    \cup OrgDests
    \cup {d \o <<m>> : d \in OrgDests, m \in MonthDirs}
    \cup UNION {{d \o <<m, n>> : m \in MonthDirs, n \in OrgNames} : d \in OrgDests}

\* what the destination holds before the run: nothing at all (the folder is
\* missing), or a folder whose 2024-01 sub-folder holds, under the name
\* a.txt, nothing, a file, a dangling symbolic link or a directory, and under
\* the name a_1.txt nothing or a file
OrgPres ==
    {[dest |-> "missing", a |-> "none", a1 |-> "none"]}
    \cup [dest : {"dir"}, a : {"none", "file", "dangling", "dir"}, a1 : {"none", "file"}]

MkOrgFs(dest, present, pre) ==
    LET jan == dest \o <<year_month(10)>>
    IN  [p \in OrgPaths |->
            IF p \in {<<>>, OrgSource, OrgSource \o << <<"sub">> >>} THEN DirNode
            ELSE IF \E i \in present : p = OrgSrcFiles[i]
                 THEN FileNode(CHOOSE i \in present : p = OrgSrcFiles[i])
            ELSE IF pre.dest = "missing" THEN NoNode
            ELSE IF p = dest THEN DirNode
            ELSE IF p = jan
                 THEN (IF pre.a # "none" \/ pre.a1 # "none" THEN DirNode ELSE NoNode)
            ELSE IF p = Append(jan, FileA)
                 THEN (CASE pre.a = "file" -> FileNode(PreA)
                         [] pre.a = "dangling" -> LinkNode(Gone)
                         [] pre.a = "dir" -> DirNode
                         [] OTHER -> NoNode)
            ELSE IF p = Append(jan, FileA1)
                 THEN (IF pre.a1 = "file" THEN FileNode(PreA1) ELSE NoNode)
            ELSE NoNode]

InitOrg ==
    /\ sourceArg \in {OrgSource, Gone}
    /\ destArg \in OrgDests
    /\ dry_run \in BOOLEAN
    /\ \E present \in SUBSET OrgSrcIds, days \in [OrgSrcIds -> Days], pre \in OrgPres :
          /\ \A i \in OrgSrcIds : i \notin present => days[i] = 10
          /\ mtime = [c \in 1 .. PreA1 |->
                         IF c \in OrgSrcIds THEN days[c] ELSE IF c = PreA THEN 10 ELSE 40]
          /\ fs = MkOrgFs(destArg, present, pre)
    /\ fs0 = fs
    /\ pc = "main"
    /\ exitCode = -1
    /\ run = 1
    /\ exitBy = "none"
    /\ pending = <<>>
    /\ attempts = <<>>
    /\ written = {}
    /\ faults = 0
    /\ unreadable = {}
    /\ destWritable = TRUE
    /\ seen = <<>>
    /\ files = <<>>
    /\ duplicates = <<>>
    /\ idx = 0
    /\ console = <<>>
    /\ csv = <<>>
    /\ hashed = {}
    /\ prev = [clean |-> FALSE, moved |-> 0]

\* sorted(collected_files): the order of the path strings.  A path is
\* compared part by part; "." (before the suffix) sorts before "/", "/" before
\* the digits, the digits before "_" (before a counter) and before the letters.
TokenOrder ==
    <<"txt", "/", "01", "02">> \o [k \in 1 .. MaxCounter |-> ToString(k)]
    \o <<"2024", "a", "gone", "out", "src", "sub">>

Rank(t) == CHOOSE i \in 1 .. Len(TokenOrder) : TokenOrder[i] = t

RECURSIVE Flatten(_)
Flatten(p) == IF p = <<>> THEN <<>> ELSE <<"/">> \o Head(p) \o Flatten(Tail(p))

RECURSIVE LexLess(_, _)
LexLess(a, b) ==
    IF b = <<>> THEN FALSE
    ELSE IF a = <<>> THEN TRUE
    ELSE IF Head(a) = Head(b) THEN LexLess(Tail(a), Tail(b))
    ELSE Rank(Head(a)) < Rank(Head(b))

RECURSIVE sorted(_)
sorted(S) ==
    IF S = {} THEN <<>>
    ELSE LET first == CHOOSE x \in S :
                          \A y \in S \ {x} : LexLess(Flatten(x), Flatten(y))
         IN  <<first>> \o sorted(S \ {first})

\* collect_files_from_paths([source], recursive=True): the entries below the
\* source that are files (is_file follows links) and are reached through
\* directories (is_dir follows links), each as its resolved path, sorted.
\* No modelled name matches the default exclude patterns.
collect_files_from_paths(top) ==
    sorted({Resolve(p) : p \in
               {q \in DOMAIN fs :
                   /\ IsPrefix(top, q)
                   /\ q # top
                   /\ NodeAt(Resolve(q)).kind = "file"
                   /\ \A k \in Len(top) .. Len(q) - 1 : is_dir(SubSeq(q, 1, k))}})

\* lines 69-77: the name of the file in the date folder, then the numbered
\* names from counter on, until Path.exists() (which follows links) is false
RECURSIVE FreeName(_, _, _)
FreeName(date_folder, name, counter) ==
    LET dest_file_path ==
            IF counter = 0 THEN Append(date_folder, name)
            ELSE Append(date_folder, Numbered(name, counter))
    IN  IF exists(dest_file_path) /\ counter <= MaxCounter
        THEN FreeName(date_folder, name, counter + 1)
        ELSE dest_file_path

\* lines 46-97: the result of move_file_to_date_folder for one collected
\* file.  fault: get_creation_date raises although the file is there.
move_file_to_date_folder(file_path, fault) ==
    LET node == NodeAt(Resolve(file_path))
        info_ok == node.kind = "file" /\ ~ fault
        date_folder == IF node.kind = "file"
                       THEN Append(dest_path, year_month(mtime[node.content]))
                       ELSE dest_path
        mkdir_ok == MkdirOk(date_folder)
        name == Name(file_path)
        dest_file_path == FreeName(date_folder, name, 0)
        mv == shutil_move(file_path, dest_file_path)
        first_free ==
            \/ dest_file_path = Append(date_folder, name)
            \/ \E k \in 1 .. MaxCounter :
                  /\ dest_file_path = Append(date_folder, Numbered(name, k))
                  /\ exists(Append(date_folder, name))
                  /\ \A j \in 1 .. k - 1 : exists(Append(date_folder, Numbered(name, j)))
        error == [src |-> file_path, dst |-> <<>>, status |-> "error", made |-> {},
                  moved |-> FALSE, held |-> "none", first_free |-> TRUE,
                  used |-> node.kind = "file" /\ fault]
    IN  IF ~ info_ok THEN error
        ELSE IF ~ mkdir_ok THEN error
        ELSE IF ~ dry_run /\ ~ mv.ok
        THEN [error EXCEPT !.made = MissingDirs(date_folder)]
        ELSE [src |-> file_path, dst |-> mv.at, status |-> "success",
              made |-> MissingDirs(date_folder), moved |-> ~ dry_run,
              held |-> NodeAt(mv.at).kind, first_free |-> first_free,
              used |-> FALSE]

\* the file system after move_file_to_date_folder: the date folder created
\* (in a dry run too), and the file renamed unless the run is a dry run
OrgEffect(r) ==
    [p \in DOMAIN fs |->
        IF r.moved /\ p = r.dst THEN fs[r.src]
        ELSE IF r.moved /\ p = r.src THEN NoNode
        ELSE IF p \in r.made THEN DirNode
        ELSE fs[p]]

\* organize_files lines 117-152, main lines 239-265
OrgStart ==
    /\ pc = "main"
    /\ IF ~ (exists(sourceArg) /\ is_dir(sourceArg))
       THEN /\ Exit(1, "ValueError")
            /\ UNCHANGED <<fs, pending, written>>
       ELSE IF ~ MkdirOk(destArg)
       THEN /\ Exit(1, "OSError")
            /\ UNCHANGED <<fs, pending, written>>
       ELSE /\ fs' = [p \in DOMAIN fs |->
                         IF p \in MissingDirs(destArg) THEN DirNode ELSE fs[p]]
            /\ written' = MissingDirs(destArg)
            /\ pending' = collect_files_from_paths(Resolve(sourceArg))
            /\ IF pending' = <<>>
               THEN Exit(0, "no_files")
               ELSE pc' = "organize" /\ UNCHANGED <<exitCode, exitBy>>
    /\ UNCHANGED <<fs0, sourceArg, destArg, unreadable, destWritable, run, seen,
                   files, duplicates, idx, console, csv, hashed, attempts, faults,
                   prev, dry_run, mtime>>

\* organize_files lines 154-171: one collected file
OrgMoveOne ==
    /\ pc = "organize"
    /\ pending # <<>>
    /\ \E fault \in BOOLEAN :
          LET r == move_file_to_date_folder(Head(pending), fault)
          IN  /\ fault => r.used /\ faults < MaxFaults
              /\ r.dst \in DOMAIN fs
              /\ faults' = IF fault THEN faults + 1 ELSE faults
              /\ fs' = OrgEffect(r)
              /\ written' = written \cup r.made \cup (IF r.moved THEN {r.dst} ELSE {})
              /\ attempts' = Append(attempts,
                      [src |-> r.src, dst |-> r.dst, status |-> r.status,
                       moved |-> r.moved, held |-> r.held,
                       first_free |-> r.first_free])
    /\ pending' = Tail(pending)
    /\ UNCHANGED <<fs0, sourceArg, destArg, unreadable, destWritable, pc, exitCode,
                   exitBy, run, seen, files, duplicates, idx, console, csv, hashed,
                   prev, dry_run, mtime>>

\* the loop is over: organize_files returns its counts, main prints them
OrgFinish ==
    /\ pc = "organize"
    /\ pending = <<>>
    /\ Exit(0, "finished")
    /\ UNCHANGED <<fs, fs0, sourceArg, destArg, unreadable, destWritable, run,
                   pending, seen, files, duplicates, idx, console, csv, hashed,
                   attempts, written, faults, prev, dry_run, mtime>>

NextOrg ==
    \/ OrgStart
    \/ OrgMoveOne
    \/ OrgFinish

SpecOrg == InitOrg /\ [][NextOrg]_vars

\* ----------------------------------------------------------------- claims
Range(q) == {q[i] : i \in 1 .. Len(q)}

\* the paths of the index, and the positions (group, place) of a path in it
Indexed == UNION {Range(files[g].paths) : g \in 1 .. Len(files)}

Places(p) ==
    UNION {{<<g, k>> : k \in {n \in 1 .. Len(files[g].paths) : files[g].paths[n] = p}} :
              g \in 1 .. Len(files)}

Before(x, y) == x[1] < y[1] \/ (x[1] = y[1] /\ x[2] < y[2])

\* get_duplicates has returned
Selected == exitBy \in {"no_duplicates", "PermissionError", "finished"} \/ pc \in {"move_duplicates", "move"}

\* C1: once get_duplicates has returned, a path of the index is in its result
\* exactly when it is not the first path of its group (so a group of n paths
\* gives its last n-1 paths and a group of one path gives nothing), and the
\* result lists the paths without repetition in the order of the groups and,
\* inside a group, in the order of the group.
C1_AllButFirst ==
    Selected =>
        /\ \A g \in 1 .. Len(files) : \A k \in 1 .. Len(files[g].paths) :
               (files[g].paths[k] \in Range(duplicates)) <=> (k > 1)
        /\ \A i \in 1 .. Len(duplicates) :
               \E x \in Places(duplicates[i]) : x[2] > 1
        /\ \A i, j \in 1 .. Len(duplicates) :
               i < j => \E x \in Places(duplicates[i]), y \in Places(duplicates[j]) :
                           Before(x, y)

\* two groups with duplicates have been selected from
C1_Witness ==
    /\ Selected
    /\ Len(duplicates) = 2
    /\ \E g, h \in 1 .. Len(files) :
          g # h /\ Len(files[g].paths) > 1 /\ Len(files[h].paths) > 1

SameGroup(p, q) == \E g \in 1 .. Len(files) : {p, q} \subseteq Range(files[g].paths)

\* C2: at every point of a scan, two indexed files are in the same group
\* exactly when the contents they had when the run started are equal.
C2_GroupsByContent ==
    \A p, q \in Indexed :
        SameGroup(p, q) <=> (NodeIn(fs0, p).content = NodeIn(fs0, q).content)

\* the index holds two groups; one has files of different names and
\* directories, and a file of the other group shares a name with it
C2_Witness ==
    /\ Len(files) = 2
    /\ \E p, q, r \in Indexed :
          /\ SameGroup(p, q) /\ Name(p) # Name(q) /\ Parent(p) # Parent(q)
          /\ ~ SameGroup(p, r) /\ Name(p) = Name(r)

\* C3 as stated: whatever the first run did, a later run selects no
\* duplicate.
C3_Original == run > 1 => duplicates = <<>>

\* C3: a run that follows a run which fingerprinted every regular file it
\* reached outside the destination and moved every duplicate it selected,
\* selects no duplicate.
C3_RerunFindsNone == (run > 1 /\ prev.clean) => duplicates = <<>>

\* a second run has gone through its scan after a first run that moved
\* duplicates, and has indexed the survivors
C3_Witness ==
    /\ run > 1
    /\ prev.clean
    /\ prev.moved > 1
    /\ exitBy = "no_duplicates"
    /\ files # <<>>

InSource(p) == IsPrefix(source_path, p)

InDest(p) == IsPrefix(dest_path, p)

\* C4: every file opened for hashing and every file handed to shutil.move
\* has its canonical path inside the source root, and every place a file is
\* moved to or a directory is created at is inside the destination root.
C4_StaysInsideRoots ==
    /\ \A h \in hashed : InSource(h.canon)
    /\ \A i \in Moved : InSource(attempts[i].src) /\ InDest(attempts[i].dst)
    /\ \A w \in written : InDest(w)

\* one duplicate has been moved and one was refused because its target
\* resolves outside the destination root
C4_Witness ==
    /\ Moved # {}
    /\ hashed # {}
    /\ \E i \in 1 .. Len(attempts) :
          /\ attempts[i].outcome = "skipped"
          /\ ~ InDest(Resolve(attempts[i].dst))

\* C5: a duplicate whose target path holds a file before the move is not
\* moved: the attempt ends as a failure with an error row in the audit log,
\* the file at the target keeps the content it had when the run started, the
\* duplicate stays at its source path, and the loop goes on.
C5_NoOverwrite ==
    \A i \in 1 .. Len(attempts) :
        attempts[i].existed =>
            /\ attempts[i].outcome = "failed"
            /\ fs[attempts[i].dst] = fs0[attempts[i].dst]
            /\ fs[attempts[i].src] = fs0[attempts[i].src]
            /\ \E n \in 1 .. Len(csv) :
                  /\ csv[n].operation = "moved"
                  /\ csv[n].original_path = attempts[i].src
                  /\ csv[n].status = "error"

MovedRows == {n \in 1 .. Len(csv) : csv[n].operation = "moved"}

\* C6 as stated: with a destination that is not writable nothing but the
\* traversal happens (no audit row, no change of the file system) and the
\* process exits with a non-zero code.
C6_Original ==
    ~ destWritable =>
        /\ csv = <<>>
        /\ fs = fs0
        /\ pc = "exit" => exitCode = 1

\* C6: with a destination that is not writable, no file is moved and no
\* directory is created, no move is attempted or logged, and the process
\* exits with code 1 when the scan has selected at least one duplicate; it
\* exits with code 0, without making the test, when no duplicate is selected
\* (a run that the user interrupts exits with code 1 wherever it is).
C6_NotWritable ==
    ~ destWritable =>
        /\ fs = fs0
        /\ attempts = <<>>
        /\ MovedRows = {}
        /\ (pc = "exit" /\ duplicates # <<>> /\ exitBy # "KeyboardInterrupt") =>
               exitCode = 1 /\ exitBy = "PermissionError"
        /\ exitBy = "no_duplicates" => exitCode = 0

\* the run has selected duplicates and has ended on the failed test
C6_Witness ==
    /\ ~ destWritable
    /\ pc = "exit"
    /\ duplicates # <<>>
    /\ exitCode = 1
    /\ exitBy = "PermissionError"

\* the symbolic links among the file entries the scan has taken
SeenLinks == {p \in Range(seen) : NodeIn(fs0, p).kind = "link"}

Recorded(p) == \E n \in 1 .. Len(console) : console[n].path = p

Untouched(p) ==
    /\ \A h \in hashed : h.path # p
    /\ p \notin Indexed
    /\ p \notin Range(duplicates)
    /\ \A i \in 1 .. Len(attempts) : attempts[i].path # p /\ attempts[i].src # p
    /\ fs[p] = fs0[p]

\* C7 as stated: every link the scan has taken is left alone and has a
\* recorded skip or failure.
C7_Original == \A p \in SeenLinks : Untouched(p) /\ Recorded(p)

\* C7: a symbolic link among the file entries is never hashed, indexed or
\* moved and the scan goes on; a skip or failure is recorded for it unless
\* its canonical target is inside the source root and inside the
\* destination root, in which case it is skipped without a record.
C7_LinksLeftAlone ==
    \A p \in SeenLinks :
        /\ Untouched(p)
        /\ Recorded(p) <=> ~ (is_safe_path(p, source_path) /\ is_safe_path(p, dest_path))

\* the scan has taken a link that it recorded and gone on to index a file
C7_Witness ==
    /\ \E p \in SeenLinks : Recorded(p) /\ seen[Len(seen)] # p
    /\ files # <<>>
    /\ exitBy = "finished"

\* C8: the iterations of the loop of move_duplicates are the duplicates in
\* input order, one iteration each, each ending as moved, skipped or failed;
\* once the write test has passed the loop reaches the end of the list
\* whatever fails on the way, unless the user interrupts the run.
C8_EachOnceInOrder ==
    /\ Len(attempts) <= Len(duplicates)
    /\ \A i \in 1 .. Len(attempts) :
          /\ attempts[i].path = duplicates[i]
          /\ attempts[i].outcome \in {"moved", "skipped", "failed"}
    /\ pc = "move" => Len(attempts) = idx - 1
    /\ (pc = "exit" /\ duplicates # <<>> /\ destWritable
          /\ exitBy # "KeyboardInterrupt") =>
          /\ exitBy = "finished"
          /\ Len(attempts) = Len(duplicates)

\* a duplicate failed and a later one was moved
C8_Witness ==
    /\ pc = "exit"
    /\ \E i, j \in 1 .. Len(attempts) :
          /\ i < j
          /\ attempts[i].outcome = "failed"
          /\ attempts[j].outcome = "moved"

FailureRecorded(p) ==
    /\ \E n \in 1 .. Len(console) :
          console[n].kind = "could_not_process" /\ console[n].path = p
    /\ \E n \in 1 .. Len(csv) :
          /\ csv[n].operation = "processed"
          /\ csv[n].original_path = p
          /\ csv[n].status = "error"

\* the entries that get_files hands to get_file_info
Eligible(p) == is_safe_path(p, source_path) /\ ~ is_safe_path(p, dest_path)

\* C9: of the entries the scan has handed to get_file_info, each is either
\* in the index or recorded as a failure, never both; links are among the
\* failures; and no failure ends the scan: unless the user interrupts it, the
\* walk is taken to its end and the run goes on to select duplicates.
C9_FailuresSkipped ==
    /\ \A p \in Range(seen) :
          Eligible(p) =>
             /\ (p \in Indexed) <=> ~ FailureRecorded(p)
             /\ NodeIn(fs0, p).kind = "link" => FailureRecorded(p)
    /\ pc = "exit" => exitBy # "OSError"
    /\ (pc = "exit" /\ exitBy # "KeyboardInterrupt") => pending = <<>>

\* a regular file failed, and files before and after it are in the index
C9_Witness ==
    /\ Selected
    /\ \E i, j, k \in 1 .. Len(seen) :
          /\ i < j /\ j < k
          /\ seen[i] \in Indexed
          /\ NodeIn(fs0, seen[j]).kind = "file" /\ FailureRecorded(seen[j])
          /\ seen[k] \in Indexed

\* C10: no path whose canonical form is inside the destination root is in
\* the index, in the selected duplicates or among the sources of the moves.
C10_DestNotScanned ==
    /\ \A p \in Indexed : ~ InDest(Resolve(p))
    /\ \A p \in Range(duplicates) : ~ InDest(Resolve(p))
    /\ \A i \in 1 .. Len(attempts) : ~ InDest(attempts[i].src)

\* the destination is inside the source, the scan has met a file of the
\* destination and has indexed and moved other files
C10_Witness ==
    /\ InSource(dest_path)
    /\ \E p \in Range(seen) : InDest(p) /\ NodeIn(fs0, p).kind = "file"
    /\ files # <<>>
    /\ Moved # {}

\* the target path of a duplicate: its path relative to the source root,
\* under the destination root (lines 213-214)
TargetOf(src) == dest_path \o relative_to(src, source_path)

\* the indexed files that are alone in their group
Singles == {files[g].paths[1] : g \in {h \in 1 .. Len(files) : Len(files[h].paths) = 1}}

\* C11: after a duplicate has been moved (the loop body ended with a success
\* record), the node it was at its source path is at destination-root/r, r
\* being its path relative to the source root, inside a directory, and its
\* source path is empty; the files that are alone in their group are where
\* and what they were when the run started.
C11_MovedToRelativePath ==
    /\ \A i \in Moved :
          /\ fs[TargetOf(attempts[i].src)] = fs0[attempts[i].src]
          /\ is_dir(Parent(TargetOf(attempts[i].src)))
          /\ fs[attempts[i].src] = NoNode
    /\ \A p \in Singles : fs[p] = fs0[p]

\* a root argument that is empty, or does not name a directory (missing or
\* not a directory), or names a directory that cannot be read
BadRoot(arg) ==
    \/ arg = <<>>
    \/ NodeIn(fs0, Resolve(arg)).kind # "dir"
    \/ Resolve(arg) \in unreadable

\* C12: a run that has ended has exit code 1 when the source or the
\* destination root is empty, missing, not a directory or unreadable, when
\* the destination is not writable and duplicates were selected
\* (PermissionError), and when the user interrupted it; it has exit code 0 in
\* every other case, whether duplicates were found or not.
C12_ExitCodes ==
    pc = "exit" =>
        exitCode = IF \/ BadRoot(sourceArg)
                      \/ BadRoot(destArg)
                      \/ exitBy = "KeyboardInterrupt"
                      \/ (duplicates # <<>> /\ ~ destWritable)
                   THEN 1
                   ELSE 0

\* a run has ended with code 1 on a root that is a directory without read
\* permission
C12_Witness ==
    /\ pc = "exit"
    /\ exitCode = 1
    /\ exitBy = "ValueError"
    /\ sourceArg = SourceArg
    /\ destArg = PlainDest
    /\ unreadable # {}

\* the rows of the audit log that record the outcome of the duplicate src
OutcomeRows(src) == {n \in MovedRows : csv[n].original_path = src}

\* C13: a duplicate that the loop skips because its canonical path is not
\* inside the source root or its target path is not inside the destination
\* root stays at its source path and has an error row in the audit log, and
\* every duplicate the loop has taken has exactly one outcome row in the
\* audit log.
C13_SkipsRecorded ==
    \A i \in 1 .. Len(attempts) :
        /\ attempts[i].outcome = "skipped" =>
              /\ fs[attempts[i].src] = fs0[attempts[i].src]
              /\ \E n \in OutcomeRows(attempts[i].src) : csv[n].status = "error"
        /\ Cardinality(OutcomeRows(attempts[i].src)) = 1

\* C14: in every state of a run, after a failed move and after an interrupt
\* too, every file of the index is, with the content it had when the run
\* started, at its source path or at its target path under the destination
\* root.
C14_NeverAbsent ==
    \A p \in Indexed :
        \/ fs[p] = fs0[p]
        \/ fs[TargetOf(Resolve(p))] = fs0[p]

\* the regular files under the source root when the run started
SourceFiles0 == {p \in DOMAIN fs0 : InSource(p) /\ fs0[p].kind = "file"}

\* C15: in every state of a run, every regular file that was under the
\* source root when the run started and is not in the selected duplicate list
\* is at its path with its content; and a run that ends with no duplicate
\* found has changed nothing in the file system.
C15_Frame ==
    /\ \A p \in SourceFiles0 : p \notin Range(duplicates) => fs[p] = fs0[p]
    /\ exitBy = "no_duplicates" => fs = fs0

\* C16: a duplicate whose re-hash raised OSError just before its move is
\* moved all the same: the iteration ends as moved, the file has left its
\* source path, and its row in the audit log is a success row with an empty
\* file_hash.
C16_RehashBestEffort ==
    \A i \in 1 .. Len(attempts) :
        attempts[i].fault = "hash" =>
            /\ attempts[i].outcome = "moved"
            /\ attempts[i].file_hash = <<>>
            /\ fs[attempts[i].src] = NoNode
            /\ fs[attempts[i].dst].kind = "file"
            /\ \A n \in OutcomeRows(attempts[i].src) :
                  csv[n].status = "success" /\ csv[n].file_hash = <<>>
            /\ OutcomeRows(attempts[i].src) # {}

\* the re-hash of a duplicate has failed, and the run has ended
C16_Witness ==
    /\ exitBy = "finished"
    /\ \E i \in Moved : attempts[i].fault = "hash" /\ attempts[i].file_hash = <<>>

\* the files and symbolic links the file system held when the run started
Entries0 == {p \in DOMAIN fs0 : fs0[p].kind \in {"file", "link"}}

\* C17: every move of organize_by_date goes to a name that is the file's own
\* name or, that one being taken, the first of stem_1, stem_2, ... that is
\* free, and the path it goes to holds nothing before the move; so every
\* file and link that existed when the run started still exists (the files
\* carry different contents, hence under different names); and in a dry run
\* every file stays at its path.
C17_NeverTargetsExisting ==
    /\ \A i \in 1 .. Len(attempts) :
          attempts[i].status = "success" =>
              /\ attempts[i].first_free
              /\ attempts[i].moved => attempts[i].held = "none"
    /\ \A p \in Entries0 : \E q \in DOMAIN fs : fs[q] = fs0[p]
    /\ dry_run => \A p \in Entries0 : fs[p] = fs0[p]
====
